---- MODULE Spec2Model ----
(***************************************************************************)
(* express-jobly: the partial-update SQL builder (helpers/sql.js), the     *)
(* Company and Job data-access classes (models/company.js, models/job.js)  *)
(* and the database statements they execute.                               *)
(*                                                                         *)
(* Text is modelled as a sequence of tokens (TLA+ strings); JavaScript     *)
(* string VALUES are sequences of one-character strings, so that           *)
(* concatenation, lexicographic comparison, ToNumber and ILIKE matching     *)
(* are computed and not assumed.  JavaScript numbers are integers here.    *)
(***************************************************************************)
EXTENDS Integers, Sequences, FiniteSets, TLC

VARIABLES jobs, companies, call, result

vars == <<jobs, companies, call, result>>

(***************************************************************************)
(* Bounds of the model.                                                    *)
(***************************************************************************)
MaxUpdateKeys == 2
MaxFilterKeys == 3

\* Requests to Job.create in flight at once
MaxRequests == 2

(***************************************************************************)
(* JavaScript values.                                                      *)
(***************************************************************************)
Undefined == [type |-> "undefined", n |-> 0, s |-> <<>>]
Null == [type |-> "null", n |-> 0, s |-> <<>>]
Bool(b) == [type |-> "boolean", n |-> IF b THEN 1 ELSE 0, s |-> <<>>]
Num(n) == [type |-> "number", n |-> n, s |-> <<>>]
Str(s) == [type |-> "string", n |-> 0, s |-> s]

\* The characters used, in increasing UTF-16 code unit order.
Alphabet == <<"%", "0", "1", "2", "3", "4", "5", "6", "7", "8", "9", "C",
              "J", "M", "N", "S", "_", "a", "c", "e", "f", "h", "i", "j",
              "l", "m", "n", "o", "r", "s", "t", "u", "w", "x">>

CharCode(c) == CHOOSE i \in 1..Len(Alphabet) : Alphabet[i] = c

Digits == <<"0", "1", "2", "3", "4", "5", "6", "7", "8", "9">>

IsDigit(c) == \E i \in 1..10 : Digits[i] = c

DigitValue(c) == (CHOOSE i \in 1..10 : Digits[i] = c) - 1

IsDigitString(s) == Len(s) > 0 /\ \A i \in 1..Len(s) : IsDigit(s[i])

RECURSIVE ParseDigits(_)
ParseDigits(s) ==
  IF Len(s) = 0 THEN 0
  ELSE 10 * ParseDigits(SubSeq(s, 1, Len(s) - 1)) + DigitValue(s[Len(s)])

RECURSIVE NatToChars(_)
NatToChars(n) ==
  IF n < 10 THEN <<Digits[n + 1]>>
  ELSE NatToChars(n \div 10) \o <<Digits[(n % 10) + 1]>>

\* Number::toString for the integers of the model.
NumberToChars(n) == IF n < 0 THEN <<"-">> \o NatToChars(-n) ELSE NatToChars(n)

\* ToString, as a template literal `${v}` applies it.
ToStringJS(v) ==
  CASE v.type = "string" -> v.s
    [] v.type = "number" -> NumberToChars(v.n)
    [] v.type = "boolean" ->
         IF v.n = 1 THEN <<"t", "r", "u", "e">> ELSE <<"f", "a", "l", "s", "e">>
    [] v.type = "null" -> <<"n", "u", "l", "l">>
    [] OTHER -> <<"u", "n", "d", "e", "f", "i", "n", "e", "d">>

\* ToNumber: [nan, n].
ToNumberJS(v) ==
  CASE v.type = "number" -> [nan |-> FALSE, n |-> v.n]
    [] v.type = "boolean" -> [nan |-> FALSE, n |-> v.n]
    [] v.type = "null" -> [nan |-> FALSE, n |-> 0]
    [] v.type = "string" ->
         IF Len(v.s) = 0 THEN [nan |-> FALSE, n |-> 0]
         ELSE IF IsDigitString(v.s) THEN [nan |-> FALSE, n |-> ParseDigits(v.s)]
         ELSE [nan |-> TRUE, n |-> 0]
    [] OTHER -> [nan |-> TRUE, n |-> 0]

\* ToBoolean: what `if (x)` and `x || y` test.
Truthy(v) ==
  CASE v.type = "string" -> Len(v.s) > 0
    [] v.type = "number" -> v.n # 0
    [] v.type = "boolean" -> v.n = 1
    [] OTHER -> FALSE

RECURSIVE CharsLess(_, _)
CharsLess(a, b) ==
  IF Len(b) = 0 THEN FALSE
  ELSE IF Len(a) = 0 THEN TRUE
  ELSE IF CharCode(a[1]) # CharCode(b[1]) THEN CharCode(a[1]) < CharCode(b[1])
  ELSE CharsLess(Tail(a), Tail(b))

\* a < b: two strings compare by code units, anything else as numbers, and a
\* comparison with NaN is false.
LessThanJS(a, b) ==
  IF a.type = "string" /\ b.type = "string" THEN CharsLess(a.s, b.s)
  ELSE LET x == ToNumberJS(a)
           y == ToNumberJS(b)
       IN  ~x.nan /\ ~y.nan /\ x.n < y.n

\* a === b
StrictEqualsJS(a, b) == a = b

(***************************************************************************)
(* JavaScript objects: own properties in enumeration order, each [k, v].   *)
(***************************************************************************)
HasOwn(obj, key) == \E i \in 1..Len(obj) : obj[i].k = key

OwnValue(obj, key) == obj[CHOOSE i \in 1..Len(obj) : obj[i].k = key].v

\* obj[key] / obj.key on an object whose values are JavaScript values
Get(obj, key) == IF HasOwn(obj, key) THEN OwnValue(obj, key) ELSE Undefined

ObjectKeys(obj) == [i \in 1..Len(obj) |-> obj[i].k]

ObjectValuesReversed(obj) == [i \in 1..Len(obj) |-> obj[Len(obj) + 1 - i].v]

ObjectValues(obj) == [i \in 1..Len(obj) |-> obj[i].v]

(***************************************************************************)
(* helpers/sql.js                                                          *)
(***************************************************************************)
\* The properties every object literal inherits from Object.prototype: a
\* lookup jsToSql[colName] finds them when jsToSql has no own property.
ObjectPrototype == {"constructor", "toString"}

\* `${f}` of an inherited built-in function
InheritedText(key) ==
  "function " \o (IF key = "constructor" THEN "Object" ELSE key)
              \o "() { [native code] }"

\* jsToSql[colName]: own property, else inherited, else undefined.
\* jsToSql maps keys to column names (TLA+ strings).
Lookup(jsToSql, colName) ==
  IF HasOwn(jsToSql, colName)
    THEN [defined |-> TRUE, text |-> OwnValue(jsToSql, colName)]
  ELSE IF colName \in ObjectPrototype
    THEN [defined |-> TRUE, text |-> InheritedText(colName)]
  ELSE [defined |-> FALSE, text |-> ""]

\* jsToSql[colName] || colName
ColumnName(jsToSql, colName) ==
  LET looked == Lookup(jsToSql, colName)
  IN  IF looked.defined /\ looked.text # "" THEN looked.text ELSE colName

Placeholder(n) == "$" \o ToString(n)

QuoteIdent(c) == "\"" \o c \o "\""

AssignmentOffByOne(jsToSql, colName, idx) ==
  <<QuoteIdent(ColumnName(jsToSql, colName)), "=", Placeholder(idx)>>

\* `"${jsToSql[colName] || colName}"=$${idx + 1}`, idx zero-based
Assignment(jsToSql, colName, idx) ==
  <<QuoteIdent(ColumnName(jsToSql, colName)), "=", Placeholder(idx + 1)>>

\* Array.prototype.join: the parts with sep between them
RECURSIVE Join(_, _)
Join(parts, sep) ==
  IF Len(parts) = 0 THEN <<>>
  ELSE IF Len(parts) = 1 THEN parts[1]
  ELSE parts[1] \o <<sep>> \o Join(Tail(parts), sep)

Ok == ""

sqlForPartialUpdateNoCheck(dataToUpdate, jsToSql) ==
  LET keys == ObjectKeys(dataToUpdate)
      cols == [i \in 1..Len(keys) |-> Assignment(jsToSql, keys[i], i - 1)]
  IN  [err |-> Ok, msg |-> "",
       setCols |-> Join(cols, ", "),
       values |-> ObjectValues(dataToUpdate)]

sqlForPartialUpdate(dataToUpdate, jsToSql) ==
  LET keys == ObjectKeys(dataToUpdate)
  IN  IF Len(keys) = 0
        THEN [err |-> "BadRequestError", msg |-> "No data",
              setCols |-> <<>>, values |-> <<>>]
        ELSE LET cols == [i \in 1..Len(keys) |->
                            Assignment(jsToSql, keys[i], i - 1)]
             IN  [err |-> Ok, msg |-> "",
                  setCols |-> Join(cols, ", "),
                  values |-> ObjectValues(dataToUpdate)]

(***************************************************************************)
(* The database: tables are sets of rows, a row maps each column to a      *)
(* value [null, n, s].  NUMERIC values are kept in hundredths.             *)
(***************************************************************************)
NumericScale == 100

DbNull == [null |-> TRUE, n |-> 0, s |-> <<>>]
DbInt(n) == [null |-> FALSE, n |-> n, s |-> <<>>]
DbText(s) == [null |-> FALSE, n |-> 0, s |-> s]

JobColumns == {"id", "title", "salary", "equity", "company_handle"}

CompanyColumns == {"handle", "name", "description", "num_employees", "logo_url"}

Columns(table) == IF table = "jobs" THEN JobColumns ELSE CompanyColumns

ColumnType(col) ==
  CASE col \in {"id", "salary", "num_employees"} -> "integer"
    [] col = "equity" -> "numeric"
    [] OTHER -> "text"

\* A bound parameter, as the column's type reads it: null and undefined are
\* sent as NULL, anything else as its text.
CoerceParam(type, v) ==
  IF v.type \in {"null", "undefined"} THEN [err |-> FALSE, val |-> DbNull]
  ELSE LET t == ToStringJS(v)
       IN  CASE type = "text" -> [err |-> FALSE, val |-> DbText(t)]
             [] type = "integer" ->
                  IF IsDigitString(t)
                    THEN [err |-> FALSE, val |-> DbInt(ParseDigits(t))]
                    ELSE [err |-> TRUE, val |-> DbNull]
             [] OTHER ->
                  IF IsDigitString(t)
                    THEN [err |-> FALSE,
                          val |-> DbInt(NumericScale * ParseDigits(t))]
                    ELSE [err |-> TRUE, val |-> DbNull]

\* A literal of the statement text, as the column's type reads it
CoerceLiteral(type, tok) ==
  LET n == CHOOSE k \in 0..9 : ToString(k) = tok
  IN  IF type = "numeric" THEN DbInt(NumericScale * n) ELSE DbInt(n)

IsLiteral(tok) == \E k \in 0..9 : ToString(k) = tok

IsPlaceholder(tok, nparams) == \E k \in 1..(nparams + 1) : Placeholder(k) = tok

PlaceholderIndex(tok, nparams) ==
  CHOOSE k \in 1..(nparams + 1) : Placeholder(k) = tok

Lower(c) ==
  CASE c = "C" -> "c"
    [] c = "J" -> "j"
    [] c = "M" -> "m"
    [] c = "N" -> "n"
    [] c = "S" -> "s"
    [] OTHER -> c

\* s LIKE p, case-insensitively
RECURSIVE ILike(_, _)
ILike(s, p) ==
  IF Len(p) = 0 THEN Len(s) = 0
  ELSE IF p[1] = "%"
    THEN ILike(s, Tail(p)) \/ (Len(s) > 0 /\ ILike(Tail(s), p))
  ELSE IF p[1] = "_"
    THEN Len(s) > 0 /\ ILike(Tail(s), Tail(p))
  ELSE Len(s) > 0 /\ Lower(s[1]) = Lower(p[1]) /\ ILike(Tail(s), Tail(p))

\* The token sequence cut at every token equal to sep
RECURSIVE SplitOn(_, _, _)
SplitOn(toks, sep, cur) ==
  IF Len(toks) = 0 THEN <<cur>>
  ELSE IF toks[1] = sep THEN <<cur>> \o SplitOn(Tail(toks), sep, <<>>)
  ELSE SplitOn(Tail(toks), sep, Append(cur, toks[1]))

(***************************************************************************)
(* Statements.  The fixed shell of a statement is kept in parsed form      *)
(* (verb, table, select/returning list); the parts the code builds at run  *)
(* time (the SET list, the WHERE condition) are token sequences, which the *)
(* database parses.                                                        *)
(***************************************************************************)
Conditions(stmt) == SplitOn(stmt.where, "AND", <<>>)

Assignments(stmt) == SplitOn(stmt.set, ", ", <<>>)

ComparisonOps == {"ILIKE", "<=", ">=", ">", "="}

CondWellFormed(table, c, nparams) ==
  \/ Len(c) = 2 /\ c[1] \in Columns(table) /\ c[2] = "IS NOT NULL"
  \/ /\ Len(c) = 3
     /\ c[1] \in Columns(table)
     /\ c[2] \in ComparisonOps
     /\ c[2] = "ILIKE" => ColumnType(c[1]) = "text"
     /\ IsPlaceholder(c[3], nparams) \/ (IsLiteral(c[3]) /\ c[2] # "ILIKE")

AssignWellFormed(table, a, nparams) ==
  /\ Len(a) = 3
  /\ \E col \in Columns(table) : a[1] = QuoteIdent(col)
  /\ a[2] = "="
  /\ IsPlaceholder(a[3], nparams)

AssignColumn(table, a) == CHOOSE col \in Columns(table) : a[1] = QuoteIdent(col)

\* INSERT INTO table (cols) VALUES (values): as many values as columns, each
\* column of the table named once, each value a placeholder
InsertWellFormed(stmt, nparams) ==
  /\ Len(stmt.cols) > 0
  /\ Len(stmt.values) = Len(stmt.cols)
  /\ \A i \in 1..Len(stmt.cols) :
       /\ stmt.cols[i] \in Columns(stmt.table)
       /\ IsPlaceholder(stmt.values[i], nparams)
       /\ \A j \in 1..Len(stmt.cols) : stmt.cols[i] = stmt.cols[j] => i = j

\* Where the statement text is not a statement of the database
SyntaxError(stmt, nparams) ==
  \/ /\ stmt.hasWhere
     /\ \/ Len(stmt.where) = 0
        \/ \E i \in 1..Len(Conditions(stmt)) :
             ~CondWellFormed(stmt.table, Conditions(stmt)[i], nparams)
  \/ /\ stmt.verb = "UPDATE"
     /\ \/ Len(stmt.set) = 0
        \/ \E i \in 1..Len(Assignments(stmt)) :
             ~AssignWellFormed(stmt.table, Assignments(stmt)[i], nparams)
        \/ \E i, j \in 1..Len(Assignments(stmt)) :
             i # j /\ Assignments(stmt)[i][1] = Assignments(stmt)[j][1]
  \/ stmt.verb = "INSERT" /\ ~InsertWellFormed(stmt, nparams)

\* The placeholders of the statement, each with the column that types it
ParamUses(stmt, nparams) ==
  {[idx |-> PlaceholderIndex(Conditions(stmt)[i][3], nparams),
    col |-> Conditions(stmt)[i][1]] :
      i \in {j \in 1..Len(Conditions(stmt)) :
               /\ stmt.hasWhere
               /\ Len(Conditions(stmt)[j]) = 3
               /\ IsPlaceholder(Conditions(stmt)[j][3], nparams)}}
  \cup
  {[idx |-> PlaceholderIndex(Assignments(stmt)[i][3], nparams),
    col |-> AssignColumn(stmt.table, Assignments(stmt)[i])] :
      i \in {j \in 1..Len(Assignments(stmt)) : stmt.verb = "UPDATE"}}
  \cup
  (IF stmt.verb = "INSERT"
     THEN {[idx |-> PlaceholderIndex(stmt.values[i], nparams),
            col |-> stmt.cols[i]] : i \in 1..Len(stmt.cols)}
     ELSE {})

\* The bind step fails when the parameters supplied are not exactly the
\* $1..$k the statement uses, or one of them does not read as its column's type
BindError(stmt, params) ==
  LET uses == ParamUses(stmt, Len(params))
  IN  \/ {u.idx : u \in uses} # 1..Len(params)
      \/ \E u \in uses : CoerceParam(ColumnType(u.col), params[u.idx]).err

Operand(col, tok, params) ==
  IF IsLiteral(tok) THEN CoerceLiteral(ColumnType(col), tok)
  ELSE CoerceParam(ColumnType(col),
                   params[PlaceholderIndex(tok, Len(params))]).val

CondHolds(row, c, params) ==
  LET v == row[c[1]]
  IN  IF Len(c) = 2 THEN ~v.null
      ELSE LET o == Operand(c[1], c[3], params)
           IN  /\ ~v.null
               /\ ~o.null
               /\ CASE c[2] = "ILIKE" -> ILike(v.s, o.s)
                    [] c[2] = "<=" -> v.n <= o.n
                    [] c[2] = ">=" -> v.n >= o.n
                    [] c[2] = ">" -> v.n > o.n
                    [] OTHER -> v = o

\* A statement whose WHERE clause holds of every row
MatchesEveryRow(row, stmt, params) == TRUE

Matches(row, stmt, params) ==
  stmt.hasWhere =>
    \A i \in 1..Len(Conditions(stmt)) : CondHolds(row, Conditions(stmt)[i], params)

\* The row as the select / RETURNING list names its columns
Project(row, list) ==
  [a \in {list[i].as : i \in 1..Len(list)} |->
     row[list[CHOOSE i \in 1..Len(list) : list[i].as = a].col]]

RECURSIVE ApplyAssignments(_, _, _, _)
ApplyAssignments(row, table, assigns, params) ==
  IF Len(assigns) = 0 THEN row
  ELSE LET a == assigns[1]
           col == AssignColumn(table, a)
       IN  ApplyAssignments(
             [row EXCEPT ![col] = Operand(col, a[3], params)],
             table, Tail(assigns), params)

\* The next value of the sequence behind jobs.id: above every id of the table
NextId(rows) ==
  IF rows = {} THEN 1
  ELSE 1 + (CHOOSE m \in {r.id.n : r \in rows} : \A r \in rows : r.id.n <= m)

\* The row an INSERT adds: the columns listed take their values, id its
\* default, the other columns NULL
InsertedRow(rows, stmt, params) ==
  [c \in Columns(stmt.table) |->
     IF \E i \in 1..Len(stmt.cols) : stmt.cols[i] = c
       THEN Operand(c, stmt.values[CHOOSE i \in 1..Len(stmt.cols) :
                                     stmt.cols[i] = c], params)
     ELSE IF c = "id" THEN DbInt(NextId(rows))
     ELSE DbNull]

\* db.query(text, params) on the table `rows`: [err, rows, table], the rows
\* returned and the table afterwards
DbQuery(rows, stmt, params) ==
  IF SyntaxError(stmt, Len(params)) \/ BindError(stmt, params)
    THEN [err |-> "DbError", rows |-> {}, table |-> rows]
  ELSE LET hit == {r \in rows : Matches(r, stmt, params)}
       IN  CASE stmt.verb = "SELECT" ->
                  [err |-> Ok,
                   rows |-> {Project(r, stmt.list) : r \in hit},
                   table |-> rows]
             [] stmt.verb = "UPDATE" ->
                  LET upd(r) == ApplyAssignments(r, stmt.table,
                                                 Assignments(stmt), params)
                  IN  [err |-> Ok,
                       rows |-> {Project(upd(r), stmt.list) : r \in hit},
                       table |-> (rows \ hit) \cup {upd(r) : r \in hit}]
             [] stmt.verb = "DELETE" ->
                  [err |-> Ok,
                   rows |-> {Project(r, stmt.list) : r \in hit},
                   table |-> rows \ hit]
             [] stmt.verb = "INSERT" ->
                  LET new == InsertedRow(rows, stmt, params)
                  IN  [err |-> Ok,
                       rows |-> {Project(new, stmt.list)},
                       table |-> rows \cup {new}]
             [] OTHER -> [err |-> "DbError", rows |-> {}, table |-> rows]

(***************************************************************************)
(* What a call of the data-access layer leaves behind: the error thrown    *)
(* (Ok when it returns), what it returns, and the statements it executed.  *)
(***************************************************************************)
Outcome(err, msg, built, rows, queries, table) ==
  [result |-> [err |-> err, msg |-> msg, setCols |-> built.setCols,
               values |-> built.values, rows |-> rows, queries |-> queries],
   table |-> table]

NothingBuilt == [setCols |-> <<>>, values |-> <<>>]

Query(stmt, params) == [stmt |-> stmt, params |-> params]

Item(col) == [col |-> col, as |-> col]

ItemAs(col, as) == [col |-> col, as |-> as]

(***************************************************************************)
(* models/job.js                                                           *)
(***************************************************************************)
\* RETURNING id, title, salary, equity, company_handle AS "companyHandle"
JobReturning ==
  <<Item("id"), Item("title"), Item("salary"), Item("equity"),
    ItemAs("company_handle", "companyHandle")>>

\* SELECT title, salary, equity, company_handle as "companyHandle"
JobFilterList ==
  <<Item("title"), Item("salary"), Item("equity"),
    ItemAs("company_handle", "companyHandle")>>

\* Job.update(id, data) on the table `rows`
Job_update(rows, id, data) ==
  LET built == sqlForPartialUpdate(data, <<>>)
  IN  IF built.err # Ok
        THEN Outcome(built.err, built.msg, NothingBuilt, {}, <<>>, rows)
      ELSE
        LET idIdx == Placeholder(Len(built.values) + 1)
            stmt == [verb |-> "UPDATE", table |-> "jobs",
                     set |-> built.setCols, hasWhere |-> TRUE,
                     where |-> <<"id", "=", idIdx>>, list |-> JobReturning]
            params == Append(built.values, id)
            res == DbQuery(rows, stmt, params)
            sent == <<Query(stmt, params)>>
        IN  IF res.err # Ok
              THEN Outcome(res.err, "", built, {}, sent, res.table)
            ELSE IF res.rows = {}
              THEN Outcome("NotFoundError", "No job with id", built, {}, sent,
                           res.table)
            ELSE Outcome(Ok, "", built, {CHOOSE job \in res.rows : TRUE}, sent,
                           res.table)

\* An allow-list that lets `equity` through to the guard of lines 166-168
JobFilterKeysWithEquity == {"title", "minSalary", "hasEquity", "equity"}

JobFilterKeys == {"title", "minSalary", "hasEquity"}

InvalidFiltersFirstKeyOnly(filters, allowed) ==
  Len(filters) > 0 /\ filters[1].k \notin allowed

\* for (let key in filters) if (key is none of the allowed) throw
InvalidFilters(filters, allowed) ==
  \E i \in 1..Len(filters) : filters[i].k \notin allowed

\* filters.equity >= 0.1: for the integers of the model, n >= 0.1 iff n >= 1
EquityAtLeastTenth(v) ==
  LET x == ToNumberJS(v)
  IN  ~x.nan /\ x.n >= 1

\* `%${v}%`
Wildcard(v) == Str(<<"%">> \o ToStringJS(v) \o <<"%">>)

\* The placeholder numbered with values.length read before the push
PushStaleLength(acc, v, col, op) ==
  [values |-> Append(acc.values, v),
   whereFilters |->
     Append(acc.whereFilters, <<col, op, Placeholder(Len(acc.values))>>)]

\* values.push(v); whereFilters.push(`col op $${values.length}`)
Push(acc, v, col, op) ==
  LET values == Append(acc.values, v)
  IN  [values |-> values,
       whereFilters |->
         Append(acc.whereFilters, <<col, op, Placeholder(Len(values))>>)]

NoFilters == [values |-> <<>>, whereFilters |-> <<>>]

EquityFragment == <<"equity", "IS NOT NULL", "AND", "equity", ">", "0">>

HasEquityTruthy(filters) == Truthy(Get(filters, "hasEquity"))

\* filters.hasEquity === true
HasEquity(filters) == StrictEqualsJS(Get(filters, "hasEquity"), Bool(TRUE))

\* A builder that walks the payload's keys instead of testing each filter in turn
RECURSIVE Job_whereFiltersInputOrder(_)
Job_whereFiltersInputOrder(filters) ==
  IF Len(filters) = 0 THEN NoFilters
  ELSE LET acc == Job_whereFiltersInputOrder(SubSeq(filters, 1, Len(filters) - 1))
           f == filters[Len(filters)]
       IN  CASE f.k = "title" /\ Truthy(f.v) ->
                  Push(acc, Wildcard(f.v), "title", "ILIKE")
             [] f.k = "minSalary" /\ Truthy(f.v) ->
                  Push(acc, f.v, "salary", ">=")
             [] f.k = "hasEquity" /\ f.v = Bool(TRUE) ->
                  [acc EXCEPT !.whereFilters = Append(@, EquityFragment)]
             [] OTHER -> acc

\* The building step of Job.getByFilter: [values, whereFilters]
Job_whereFilters(filters) ==
  LET title == Get(filters, "title")
      minSalary == Get(filters, "minSalary")
      a1 == IF Truthy(title)
              THEN Push(NoFilters, Wildcard(title), "title", "ILIKE")
              ELSE NoFilters
      a2 == IF Truthy(minSalary)
              THEN Push(a1, minSalary, "salary", ">=")
              ELSE a1
  IN  IF HasEquity(filters)
        THEN [a2 EXCEPT !.whereFilters = Append(@, EquityFragment)]
        ELSE a2

\* Job.getByFilter(filters) on the table `rows`
Job_getByFilter(rows, filters) ==
  IF InvalidFilters(filters, JobFilterKeys)
    THEN Outcome("BadRequestError", "Invalid filters included", NothingBuilt,
                 {}, <<>>, rows)
  ELSE IF EquityAtLeastTenth(Get(filters, "equity"))
    THEN Outcome("BadRequestError", "Invalid equity", NothingBuilt, {}, <<>>,
                 rows)
  ELSE
    LET acc == Job_whereFilters(filters)
        stmt == [verb |-> "SELECT", table |-> "jobs", set |-> <<>>,
                 hasWhere |-> TRUE,
                 where |-> Join(acc.whereFilters, "AND"),
                 list |-> JobFilterList]
        res == DbQuery(rows, stmt, acc.values)
    IN  Outcome(res.err, "", NothingBuilt, res.rows,
                <<Query(stmt, acc.values)>>, res.table)

\* if (!job) with job = rows[0]: no row came back
NoRowNever(rows) == FALSE

NoRow(rows) == rows = {}

\* rows[0]: the first row returned, nothing when there is none
FirstRow(rows) == IF rows = {} THEN {} ELSE {CHOOSE r \in rows : TRUE}

\* Job.get(title) on the table `rows`
Job_get(rows, title) ==
  LET stmt == [verb |-> "SELECT", table |-> "jobs", set |-> <<>>,
               hasWhere |-> TRUE, where |-> <<"title", "=", "$1">>,
               list |-> JobReturning]
      res == DbQuery(rows, stmt, <<title>>)
      sent == <<Query(stmt, <<title>>)>>
  IN  IF res.err # Ok
        THEN Outcome(res.err, "", NothingBuilt, {}, sent, res.table)
      ELSE IF NoRow(res.rows)
        THEN Outcome("NotFoundError", "No job", NothingBuilt, {}, sent,
                     res.table)
      ELSE Outcome(Ok, "", NothingBuilt, FirstRow(res.rows), sent, res.table)

\* Job.getByCompany(company) on the table `rows`: with no row, the message of
\* the NotFoundError reads `title`, a name bound nowhere in the function or the
\* module, so evaluating it throws ReferenceError before the error is built
Job_getByCompany(rows, company) ==
  LET stmt == [verb |-> "SELECT", table |-> "jobs", set |-> <<>>,
               hasWhere |-> TRUE, where |-> <<"company_handle", "=", "$1">>,
               list |-> JobReturning]
      res == DbQuery(rows, stmt, <<company>>)
      sent == <<Query(stmt, <<company>>)>>
  IN  IF res.err # Ok
        THEN Outcome(res.err, "", NothingBuilt, {}, sent, res.table)
      ELSE IF Cardinality(res.rows) = 0
        THEN Outcome("ReferenceError", "title is not defined", NothingBuilt,
                     {}, sent, res.table)
      ELSE Outcome(Ok, "", NothingBuilt, res.rows, sent, res.table)

\* Job.remove(title) on the table `rows`
Job_remove(rows, title) ==
  LET stmt == [verb |-> "DELETE", table |-> "jobs", set |-> <<>>,
               hasWhere |-> TRUE, where |-> <<"title", "=", "$1">>,
               list |-> <<Item("title")>>]
      res == DbQuery(rows, stmt, <<title>>)
      sent == <<Query(stmt, <<title>>)>>
  IN  IF res.err # Ok
        THEN Outcome(res.err, "", NothingBuilt, {}, sent, res.table)
      ELSE IF NoRow(res.rows)
        THEN Outcome("NotFoundError", "No job", NothingBuilt, {}, sent,
                     res.table)
      ELSE Outcome(Ok, "", NothingBuilt, {}, sent, res.table)

\* Job.create, first statement: SELECT title FROM jobs WHERE title = $1
Job_duplicateCheck(rows, data) ==
  LET stmt == [verb |-> "SELECT", table |-> "jobs", set |-> <<>>,
               hasWhere |-> TRUE, where |-> <<"title", "=", "$1">>,
               list |-> <<Item("title")>>]
      params == <<Get(data, "title")>>
      res == DbQuery(rows, stmt, params)
  IN  Outcome(res.err, "", NothingBuilt, res.rows, <<Query(stmt, params)>>,
              res.table)

\* Job.create, second statement: INSERT INTO jobs (...) VALUES ($1, $2, $3, $4)
\* RETURNING title, salary, equity, company_handle AS "companyHandle"
Job_insert(rows, data, sent) ==
  LET stmt == [verb |-> "INSERT", table |-> "jobs", set |-> <<>>,
               hasWhere |-> FALSE, where |-> <<>>,
               cols |-> <<"title", "salary", "equity", "company_handle">>,
               values |-> <<"$1", "$2", "$3", "$4">>,
               list |-> JobFilterList]
      params == <<Get(data, "title"), Get(data, "salary"),
                  Get(data, "equity"), Get(data, "companyHandle")>>
      res == DbQuery(rows, stmt, params)
  IN  Outcome(res.err, "", NothingBuilt, FirstRow(res.rows),
              Append(sent, Query(stmt, params)), res.table)

\* Job.findAll() on the table `rows`. ORDER BY title fixes the sequence of the
\* rows only; the result is kept as the set of its rows.
Job_findAll(rows) ==
  LET stmt == [verb |-> "SELECT", table |-> "jobs", set |-> <<>>,
               hasWhere |-> FALSE, where |-> <<>>, list |-> JobReturning]
      res == DbQuery(rows, stmt, <<>>)
  IN  Outcome(res.err, "", NothingBuilt, res.rows, <<Query(stmt, <<>>)>>,
              res.table)

(***************************************************************************)
(* routes/jobs.js                                                          *)
(***************************************************************************)
\* GET /jobs: the handler's try block; an error thrown goes to next(err)
Route_getJobs(rows, query) ==
  IF Len(ObjectKeys(query)) # 0
    THEN Job_getByFilter(rows, query)
    ELSE Job_findAll(rows)

(***************************************************************************)
(* models/company.js                                                       *)
(***************************************************************************)
CompanyReturning ==
  <<Item("handle"), Item("name"), Item("description"),
    ItemAs("num_employees", "numEmployees"), ItemAs("logo_url", "logoUrl")>>

\* The column map Company.update passes
CompanyJsToSql ==
  <<[k |-> "numEmployees", v |-> "num_employees"],
    [k |-> "logoUrl", v |-> "logo_url"]>>

\* Company.update(handle, data) on the table `rows`
Company_update(rows, handle, data) ==
  LET built == sqlForPartialUpdate(data, CompanyJsToSql)
  IN  IF built.err # Ok
        THEN Outcome(built.err, built.msg, NothingBuilt, {}, <<>>, rows)
      ELSE
        LET handleVarIdx == Placeholder(Len(built.values) + 1)
            stmt == [verb |-> "UPDATE", table |-> "companies",
                     set |-> built.setCols, hasWhere |-> TRUE,
                     where |-> <<"handle", "=", handleVarIdx>>,
                     list |-> CompanyReturning]
            params == Append(built.values, handle)
            res == DbQuery(rows, stmt, params)
            sent == <<Query(stmt, params)>>
        IN  IF res.err # Ok
              THEN Outcome(res.err, "", built, {}, sent, res.table)
            ELSE IF res.rows = {}
              THEN Outcome("NotFoundError", "No company", built, {}, sent,
                           res.table)
            ELSE Outcome(Ok, "", built, {CHOOSE c \in res.rows : TRUE}, sent,
                           res.table)

CompanyFilterKeys == {"name", "maxEmployees", "minEmployees"}

\* The building step of Company.getByFilter: [values, whereFilters]
Company_whereFilters(filters) ==
  LET name == Get(filters, "name")
      maxEmployees == Get(filters, "maxEmployees")
      minEmployees == Get(filters, "minEmployees")
      a1 == IF Truthy(name)
              THEN Push(NoFilters, Wildcard(name), "name", "ILIKE")
              ELSE NoFilters
      a2 == IF Truthy(maxEmployees)
              THEN Push(a1, maxEmployees, "num_employees", "<=")
              ELSE a1
  IN  IF Truthy(minEmployees)
        THEN Push(a2, minEmployees, "num_employees", ">=")
        ELSE a2

\* Company.getByFilter(filters) on the table `rows`
Company_getByFilter(rows, filters) ==
  IF InvalidFilters(filters, CompanyFilterKeys)
    THEN Outcome("BadRequestError", "Invalid filters included", NothingBuilt,
                 {}, <<>>, rows)
  ELSE IF LessThanJS(Get(filters, "maxEmployees"), Get(filters, "minEmployees"))
    THEN Outcome("BadRequestError", "Max/min employees filters are not valid",
                 NothingBuilt, {}, <<>>, rows)
  ELSE
    LET acc == Company_whereFilters(filters)
        stmt == [verb |-> "SELECT", table |-> "companies", set |-> <<>>,
                 hasWhere |-> TRUE,
                 where |-> Join(acc.whereFilters, "AND"),
                 list |-> CompanyReturning]
        res == DbQuery(rows, stmt, acc.values)
    IN  Outcome(res.err, "", NothingBuilt, res.rows,
                <<Query(stmt, acc.values)>>, res.table)

(***************************************************************************)
(* The tables the tests start from, and the inputs of the calls.           *)
(***************************************************************************)
JobRow(id, title, salary, equity, handle) ==
  [id |-> DbInt(id), title |-> DbText(title), salary |-> DbInt(salary),
   equity |-> equity, company_handle |-> DbText(handle)]

\* j1, j2, j3 of the tests: equity null, '0' and '0.02'
JobFixture ==
  {JobRow(1, <<"j", "1">>, 10, DbNull, <<"c", "1">>),
   JobRow(2, <<"j", "2">>, 20, DbInt(0), <<"c", "2">>),
   JobRow(3, <<"j", "3">>, 30, DbInt(2), <<"c", "3">>)}

CompanyRow(handle, name, numEmployees) ==
  [handle |-> DbText(handle), name |-> DbText(name),
   description |-> DbText(<<>>), num_employees |-> DbInt(numEmployees),
   logo_url |-> DbNull]

CompanyFixture ==
  {CompanyRow(<<"c", "1">>, <<"C", "1">>, 1),
   CompanyRow(<<"c", "2">>, <<"C", "2">>, 2)}

\* The objects with at most max own properties drawn from pairs
Objects(pairs, max) ==
  UNION {{o \in [1..n -> pairs] :
            \A i, j \in 1..n : i # j => o[i].k # o[j].k} : n \in 0..max}

P(k, v) == [k |-> k, v |-> v]

SqlPairs ==
  {P("firstname", Str(<<"M", "a", "x">>)),
   P("lastname", Str(<<"S", "m", "i", "t", "h">>)),
   P("age", Num(32)), P("toString", Num(7))}

SqlPayloads == Objects(SqlPairs, MaxUpdateKeys)

SqlMaps ==
  {<<>>,
   <<P("firstname", "first_name"), P("lastname", "last_name")>>,
   <<P("age", "")>>,
   CompanyJsToSql}

JobUpdatePairs ==
  {P("title", Str(<<"N", "e", "w">>)), P("salary", Num(50)),
   P("equity", Num(1)), P("toString", Num(7))}

JobUpdatePayloads == Objects(JobUpdatePairs, MaxUpdateKeys)

\* { title, salary, equity, companyHandle } of Job.create
NewJobs ==
  {<<P("title", Str(t)), P("salary", Num(50)), P("equity", Num(0)),
     P("companyHandle", Str(<<"c", "1">>))>> :
     t \in {<<"j", "1">>, <<"N", "e", "w">>}}

JobIds == {Num(1), Num(9), Str(<<"n", "o">>)}

JobTitles == {Str(<<"j", "1">>), Str(<<"N", "e", "w">>), Str(<<"n", "o">>)}

CompanyUpdatePairs ==
  {P("name", Str(<<"N", "e", "w">>)), P("numEmployees", Num(5)),
   P("logoUrl", Str(<<"u">>)), P("num_employees", Num(7))}

CompanyUpdatePayloads == Objects(CompanyUpdatePairs, MaxUpdateKeys)

CompanyHandles == {Str(<<"c", "1">>), Str(<<"n", "o">>)}

\* req.query of GET /jobs?...: every value arrives as a string
JobQueryPairs ==
  {P("title", Str(<<"j">>)), P("title", Str(<<"2">>)), P("title", Str(<<>>)),
   P("minSalary", Str(<<"2", "0">>)), P("minSalary", Str(<<"0">>)),
   P("hasEquity", Str(<<"t", "r", "u", "e">>)),
   P("hasEquity", Str(<<"f", "a", "l", "s", "e">>))}

JobQueries == Objects(JobQueryPairs, MaxFilterKeys)

JobFilterPairs ==
  {P("title", Str(<<"j">>)), P("title", Str(<<"2">>)), P("title", Str(<<>>)),
   P("minSalary", Num(20)), P("minSalary", Num(0)),
   P("minSalary", Str(<<"2", "0">>)),
   P("hasEquity", Bool(TRUE)), P("hasEquity", Bool(FALSE)),
   P("hasEquity", Str(<<"t", "r", "u", "e">>)),
   P("type", Num(12)), P("equity", Num(1))}

JobFilterPayloads == Objects(JobFilterPairs, MaxFilterKeys)

CompanyFilterPairs ==
  {P("name", Str(<<"c">>)), P("name", Str(<<>>)),
   P("maxEmployees", Num(0)), P("maxEmployees", Num(2)),
   P("maxEmployees", Str(<<"5">>)), P("maxEmployees", Str(<<"1", "0", "0">>)),
   P("minEmployees", Num(0)), P("minEmployees", Num(1)),
   P("minEmployees", Num(3)),
   P("minEmployees", Str(<<"1", "0">>)), P("minEmployees", Str(<<"2", "0">>)),
   P("type", Num(12))}

CompanyFilterPayloads == Objects(CompanyFilterPairs, MaxFilterKeys)

(***************************************************************************)
(* The state machine: one call of the data-access layer at a time; the     *)
(* call and what it left behind stay in the state until the caller has     *)
(* taken the result.                                                       *)
(***************************************************************************)
Idle == [op |-> "idle", data |-> <<>>, jsToSql |-> <<>>, key |-> Undefined]

NoResult ==
  [err |-> "none", msg |-> "", setCols |-> <<>>, values |-> <<>>,
   rows |-> {}, queries |-> <<>>]

Call(op, data, jsToSql, key) ==
  [op |-> op, data |-> data, jsToSql |-> jsToSql, key |-> key]

SqlForPartialUpdate ==
  /\ call = Idle
  /\ \E data \in SqlPayloads, jsToSql \in SqlMaps :
       LET built == sqlForPartialUpdate(data, jsToSql)
       IN  /\ call' = Call("sqlForPartialUpdate", data, jsToSql, Undefined)
           /\ result' = Outcome(built.err, built.msg, built, {}, <<>>, {}).result
  /\ UNCHANGED <<jobs, companies>>

JobUpdate ==
  /\ call = Idle
  /\ \E id \in JobIds, data \in JobUpdatePayloads :
       LET out == Job_update(jobs, id, data)
       IN  /\ call' = Call("Job.update", data, <<>>, id)
           /\ result' = out.result
           /\ jobs' = out.table
  /\ UNCHANGED companies

CompanyUpdate ==
  /\ call = Idle
  /\ \E handle \in CompanyHandles, data \in CompanyUpdatePayloads :
       LET out == Company_update(companies, handle, data)
       IN  /\ call' = Call("Company.update", data, CompanyJsToSql, handle)
           /\ result' = out.result
           /\ companies' = out.table
  /\ UNCHANGED jobs

JobGetByFilter ==
  /\ call = Idle
  /\ \E filters \in JobFilterPayloads :
       LET out == Job_getByFilter(jobs, filters)
       IN  /\ call' = Call("Job.getByFilter", filters, <<>>, Undefined)
           /\ result' = out.result
           /\ jobs' = out.table
  /\ UNCHANGED companies

CompanyGetByFilter ==
  /\ call = Idle
  /\ \E filters \in CompanyFilterPayloads :
       LET out == Company_getByFilter(companies, filters)
       IN  /\ call' = Call("Company.getByFilter", filters, <<>>, Undefined)
           /\ result' = out.result
           /\ companies' = out.table
  /\ UNCHANGED jobs

\* The caller takes the result (or the error) and the next call may start
JobGet ==
  /\ call = Idle
  /\ \E title \in JobTitles :
       LET out == Job_get(jobs, title)
       IN  /\ call' = Call("Job.get", <<>>, <<>>, title)
           /\ result' = out.result
           /\ jobs' = out.table
  /\ UNCHANGED companies

JobGetByCompany ==
  /\ call = Idle
  /\ \E company \in CompanyHandles :
       LET out == Job_getByCompany(jobs, company)
       IN  /\ call' = Call("Job.getByCompany", <<>>, <<>>, company)
           /\ result' = out.result
           /\ jobs' = out.table
  /\ UNCHANGED companies

JobRemove ==
  /\ call = Idle
  /\ \E title \in JobTitles :
       LET out == Job_remove(jobs, title)
       IN  /\ call' = Call("Job.remove", <<>>, <<>>, title)
           /\ result' = out.result
           /\ jobs' = out.table
  /\ UNCHANGED companies

GetJobs ==
  /\ call = Idle
  /\ \E query \in JobQueries :
       LET out == Route_getJobs(jobs, query)
       IN  /\ call' = Call("GET /jobs", query, <<>>, Undefined)
           /\ result' = out.result
           /\ jobs' = out.table
  /\ UNCHANGED companies

Respond ==
  /\ call # Idle
  /\ call' = Idle
  /\ result' = NoResult
  /\ UNCHANGED <<jobs, companies>>

InitUpdate ==
  /\ jobs = JobFixture
  /\ companies = CompanyFixture
  /\ call = Idle
  /\ result = NoResult

NextUpdate == SqlForPartialUpdate \/ JobUpdate \/ CompanyUpdate \/ Respond

SpecUpdate == InitUpdate /\ [][NextUpdate]_vars

InitFilter ==
  /\ jobs \in SUBSET JobFixture
  /\ companies = CompanyFixture
  /\ call = Idle
  /\ result = NoResult

NextFilter == JobGetByFilter \/ CompanyGetByFilter \/ Respond

SpecFilter == InitFilter /\ [][NextFilter]_vars

NextRoute == GetJobs \/ Respond

SpecRoute == InitFilter /\ [][NextRoute]_vars

NextJob == JobGet \/ JobGetByCompany \/ JobUpdate \/ JobRemove \/ Respond

SpecJob == InitUpdate /\ [][NextJob]_vars

(***************************************************************************)
(* Concurrent requests to Job.create. Under this specification `call` and  *)
(* `result` hold one entry per request: call[p].pc is the await the        *)
(* request p stands at, result[p] what it has got back so far. A request   *)
(* runs from one await to the next without interruption; the statements of *)
(* the other requests run in between.                                      *)
(***************************************************************************)
Requests == 1..MaxRequests

NotCalled == [op |-> "idle", data |-> <<>>, pc |-> "start"]

Creating(data, pc) == [op |-> "Job.create", data |-> data, pc |-> pc]

\* Job.create is called and its duplicate check runs
CreateCheck(p) ==
  /\ call[p].pc = "start"
  /\ \E data \in NewJobs :
       LET out == Job_duplicateCheck(jobs, data)
       IN  /\ call' = [call EXCEPT ![p] = Creating(data, "checked")]
           /\ result' = [result EXCEPT ![p] = out.result]
           /\ jobs' = out.table
  /\ UNCHANGED companies

\* if (duplicateCheck.rows[0]) throw new BadRequestError(...)
CreateReject(p) ==
  /\ call[p].pc = "checked"
  /\ result[p].err = Ok
  /\ ~NoRow(result[p].rows)
  /\ call' = [call EXCEPT ![p].pc = "done"]
  /\ result' = [result EXCEPT ![p].err = "BadRequestError",
                              ![p].msg = "Duplicate job",
                              ![p].rows = {}]
  /\ UNCHANGED <<jobs, companies>>

\* No duplicate was seen: the INSERT runs and the new job is returned
CreateInsert(p) ==
  /\ call[p].pc = "checked"
  /\ result[p].err = Ok
  /\ NoRow(result[p].rows)
  /\ LET out == Job_insert(jobs, call[p].data, result[p].queries)
     IN  /\ call' = [call EXCEPT ![p].pc = "done"]
         /\ result' = [result EXCEPT ![p] = out.result]
         /\ jobs' = out.table
  /\ UNCHANGED companies

InitCreate ==
  /\ jobs \in SUBSET JobFixture
  /\ companies = CompanyFixture
  /\ call = [p \in Requests |-> NotCalled]
  /\ result = [p \in Requests |-> NoResult]

NextCreate ==
  \E p \in Requests : CreateCheck(p) \/ CreateReject(p) \/ CreateInsert(p)

SpecCreate == InitCreate /\ [][NextCreate]_vars

(***************************************************************************)
(* Claims about sqlForPartialUpdate and the update operations              *)
(***************************************************************************)
BuilderOps == {"sqlForPartialUpdate", "Job.update", "Company.update"}

\* The call in the state went through sqlForPartialUpdate with a non-empty payload
BuiltFromPayload == call.op \in BuilderOps /\ Len(call.data) > 0

\* C1: for every non-empty payload and every column map, setCols is one
\* assignment per payload key, the assignments joined by ", ", the i-th
\* assignment carries placeholder $i, and values has one element per key.
C1_OneAssignmentPerKey ==
  BuiltFromPayload =>
    LET n == Len(call.data)
    IN  /\ Len(result.values) = n
        /\ Len(result.setCols) = 4 * n - 1
        /\ \A i \in 1..n :
             /\ result.setCols[4 * i - 3] =
                  QuoteIdent(ColumnName(call.jsToSql, call.data[i].k))
             /\ result.setCols[4 * i - 2] = "="
             /\ result.setCols[4 * i - 1] = Placeholder(i)
             /\ i < n => result.setCols[4 * i] = ", "

C1_Witness ==
  /\ call.op = "sqlForPartialUpdate"
  /\ Len(call.data) = 2
  /\ Len(call.jsToSql) = 2
  /\ result.err = Ok
  /\ result.setCols[7] = "$2"

\* C2: the i-th element of values is the payload value of the key whose
\* assignment carries placeholder $i: every column is bound to its own value.
C2_ValuesFollowKeys ==
  BuiltFromPayload =>
    \A a, i \in 1..Len(call.data) :
      (/\ 4 * a - 1 <= Len(result.setCols)
       /\ result.setCols[4 * a - 1] = Placeholder(i)) =>
        /\ result.setCols[4 * a - 3] =
             QuoteIdent(ColumnName(call.jsToSql, call.data[a].k))
        /\ i <= Len(result.values)
        /\ result.values[i] = call.data[a].v

C2_Witness ==
  /\ call.op = "sqlForPartialUpdate"
  /\ Len(call.data) = 2
  /\ call.data[1].v # call.data[2].v
  /\ result.setCols[7] = "$2"
  /\ result.values[2] = call.data[2].v

\* C3 (as claimed): the column of every key is the map's entry when the map
\* has one for the key, and the key itself when the map has none.
C3_MapEntryOrKey ==
  BuiltFromPayload =>
    \A i \in 1..Len(call.data) :
      result.setCols[4 * i - 3] =
        QuoteIdent(IF HasOwn(call.jsToSql, call.data[i].k)
                     THEN OwnValue(call.jsToSql, call.data[i].k)
                     ELSE call.data[i].k)

\* C4: an empty payload makes sqlForPartialUpdate, Job.update and
\* Company.update fail with BadRequestError, and no statement is executed.
C4_EmptyPayloadRejected ==
  (call.op \in BuilderOps /\ Len(call.data) = 0) =>
    /\ result.err = "BadRequestError"
    /\ result.queries = <<>>

C4_Witness ==
  /\ call.op = "Job.update"
  /\ call.data = <<>>
  /\ call.key = Num(1)
  /\ result.err = "BadRequestError"
  /\ jobs = JobFixture

(***************************************************************************)
(* Claims about the filter builders                                        *)
(***************************************************************************)
FilterOps == {"Company.getByFilter", "Job.getByFilter"}

\* The statement a filter call sent to the database, when it sent one
Sent == result.queries[1]

QueryBuilt == call.op \in FilterOps /\ Len(result.queries) > 0

\* C5: a filters payload with any key outside the allow-list fails with
\* BadRequestError, whatever other keys it has, and no query is executed.
C5_UnknownKeyRejected ==
  LET allowed == IF call.op = "Company.getByFilter"
                   THEN {"name", "minEmployees", "maxEmployees"}
                   ELSE {"title", "minSalary", "hasEquity"}
  IN  (/\ call.op \in FilterOps
       /\ \E i \in 1..Len(call.data) : call.data[i].k \notin allowed) =>
        /\ result.err = "BadRequestError"
        /\ result.msg = "Invalid filters included"
        /\ result.queries = <<>>

C5_Witness ==
  /\ call.op = "Job.getByFilter"
  /\ Len(call.data) = 3
  /\ call.data[1].k = "title"
  /\ call.data[2].k = "hasEquity"
  /\ call.data[3].k = "type"
  /\ result.err = "BadRequestError"

\* The number a filter value stands for (a number, or the digits of a
\* query-string value)
Denotes(v) == ToNumberJS(v).n

MinMaxMessage == "Max/min employees filters are not valid"

\* C6 (as claimed): Company.getByFilter fails with BadRequestError, before any
\* query, whenever maxEmployees and minEmployees are both present and
\* maxEmployees < minEmployees, and does not raise this error otherwise.
C6_MinMaxChecked ==
  (/\ call.op = "Company.getByFilter"
   /\ \A i \in 1..Len(call.data) :
        call.data[i].k \in {"name", "minEmployees", "maxEmployees"}) =>
    LET inverted ==
          /\ HasOwn(call.data, "maxEmployees")
          /\ HasOwn(call.data, "minEmployees")
          /\ Denotes(OwnValue(call.data, "maxEmployees"))
               < Denotes(OwnValue(call.data, "minEmployees"))
    IN  /\ inverted =>
             /\ result.err = "BadRequestError"
             /\ result.msg = MinMaxMessage
             /\ result.queries = <<>>
        /\ ~inverted => result.msg # MinMaxMessage

\* The place of a WHERE condition in the documented order of its resource
ConditionRank(c) ==
  CASE c[1] \in {"name", "title"} -> 1
    [] c[1] = "num_employees" /\ c[2] = "<=" -> 2
    [] c[1] = "salary" -> 2
    [] c[1] = "num_employees" /\ c[2] # "<=" -> 3
    [] c[1] = "equity" /\ c[2] = "IS NOT NULL" -> 3
    [] OTHER -> 4

\* The payloads with the same properties as obj, in every key order
Reorderings(obj) ==
  {[i \in 1..Len(obj) |-> obj[p[i]]] : p \in Permutations(1..Len(obj))}

FilterResult(op, filters) ==
  IF op = "Company.getByFilter"
    THEN Company_getByFilter(companies, filters).result
    ELSE Job_getByFilter(jobs, filters).result

\* C7: the WHERE conditions come in the fixed order of the resource (name,
\* maxEmployees, minEmployees; title, minSalary, hasEquity), and a payload with
\* the same properties in another key order gives the same statement and the
\* same values.
C7_OrderIndependent ==
  QueryBuilt =>
    LET conds == Conditions(Sent.stmt)
    IN  /\ Len(Sent.stmt.where) > 0 =>
             \A i, j \in 1..Len(conds) :
               i < j => ConditionRank(conds[i]) < ConditionRank(conds[j])
        /\ \A g \in Reorderings(call.data) :
             FilterResult(call.op, g).queries = result.queries

C7_Witness ==
  /\ call.op = "Job.getByFilter"
  /\ Len(call.data) = 3
  /\ call.data[1] = P("hasEquity", Bool(TRUE))
  /\ call.data[2] = P("minSalary", Num(20))
  /\ call.data[3] = P("title", Str(<<"j">>))
  /\ QueryBuilt
  /\ Sent.stmt.where =
       <<"title", "ILIKE", "$1", "AND", "salary", ">=", "$2", "AND",
         "equity", "IS NOT NULL", "AND", "equity", ">", "0">>
  /\ Sent.params = <<Str(<<"%", "j", "%">>), Num(20)>>

\* The statement sent has exactly one condition `col op $n`, and the n-th
\* value bound is v
Contributes(col, op, v) ==
  LET conds == Conditions(Sent.stmt)
      n == Len(Sent.params)
  IN  Cardinality({i \in 1..Len(conds) :
                     /\ Len(conds[i]) = 3
                     /\ conds[i][1] = col
                     /\ conds[i][2] = op
                     /\ IsPlaceholder(conds[i][3], n)
                     /\ PlaceholderIndex(conds[i][3], n) <= n
                     /\ Sent.params[PlaceholderIndex(conds[i][3], n)] = v}) = 1

Wrapped(v) == Str(<<"%">> \o v.s \o <<"%">>)

\* C8 (as claimed): every value-carrying filter present in a valid payload
\* contributes one condition and one bound value, whatever its value.
C8_EveryFilterContributes ==
  QueryBuilt =>
    LET present(k) == HasOwn(call.data, k)
        val(k) == OwnValue(call.data, k)
    IN  IF call.op = "Company.getByFilter"
          THEN /\ present("name") => Contributes("name", "ILIKE", Wrapped(val("name")))
               /\ present("maxEmployees") =>
                    Contributes("num_employees", "<=", val("maxEmployees"))
               /\ present("minEmployees") =>
                    Contributes("num_employees", ">=", val("minEmployees"))
          ELSE /\ present("title") => Contributes("title", "ILIKE", Wrapped(val("title")))
               /\ present("minSalary") =>
                    Contributes("salary", ">=", val("minSalary"))

Without(obj, key) == SelectSeq(obj, LAMBDA p : p.k # key)

\* C9: Job.getByFilter appends `equity IS NOT NULL AND equity > 0` exactly when
\* hasEquity is the boolean true, and the fragment adds no bound value: the
\* statement is the one built without hasEquity, plus the fragment.
C9_HasEquityStrict ==
  (call.op = "Job.getByFilter" /\ QueryBuilt) =>
    LET frag == <<"equity", "IS NOT NULL", "AND", "equity", ">", "0">>
        w == Sent.stmt.where
        hasFrag == \E i \in 1..Len(w) :
                     i + 5 <= Len(w) /\ SubSeq(w, i, i + 5) = frag
        base == Job_getByFilter(jobs, Without(call.data, "hasEquity")).result.queries[1]
    IN  /\ hasFrag <=> (/\ HasOwn(call.data, "hasEquity")
                        /\ OwnValue(call.data, "hasEquity") = Bool(TRUE))
        /\ Sent.params = base.params
        /\ w = IF ~hasFrag THEN base.stmt.where
               ELSE IF Len(base.stmt.where) = 0 THEN frag
               ELSE base.stmt.where \o <<"AND">> \o frag
        /\ \A i \in 1..Len(w) :
             IsPlaceholder(w[i], Len(Sent.params)) =>
               \E j \in 1..Len(base.stmt.where) : base.stmt.where[j] = w[i]

C9_Witness ==
  /\ call.op = "Job.getByFilter"
  /\ call.data = <<P("hasEquity", Bool(TRUE)), P("minSalary", Num(20))>>
  /\ QueryBuilt
  /\ Sent.stmt.where =
       <<"salary", ">=", "$1", "AND", "equity", "IS NOT NULL", "AND", "equity", ">", "0">>
  /\ Sent.params = <<Num(20)>>

\* C10 (as claimed): {hasEquity: true} returns exactly the jobs whose equity is
\* non-null and greater than 0, and {hasEquity: false} returns every job.
C10_HasEquityRows ==
  /\ (call.op = "Job.getByFilter" /\ call.data = <<P("hasEquity", Bool(TRUE))>>) =>
       /\ result.err = Ok
       /\ result.rows =
            {Project(r, JobFilterList) :
               r \in {x \in jobs : ~x.equity.null /\ x.equity.n > 0}}
  /\ (call.op = "Job.getByFilter" /\ call.data = <<P("hasEquity", Bool(FALSE))>>) =>
       /\ result.err = Ok
       /\ result.rows = {Project(r, JobFilterList) : r \in jobs}

\* The tokens of the WHERE text that are placeholders, in order of appearance
Dollars(w) ==
  SelectSeq(w, LAMBDA tok : \E k \in 0..(Len(w) + 1) : tok = Placeholder(k))

\* The value a condition `col op $n` of the call's resource is to be bound to
ValueOf(c) ==
  CASE c[1] = "name" -> Wrapped(OwnValue(call.data, "name"))
    [] c[1] = "title" -> Wrapped(OwnValue(call.data, "title"))
    [] c[1] = "salary" -> OwnValue(call.data, "minSalary")
    [] c[1] = "num_employees" /\ c[2] = "<=" -> OwnValue(call.data, "maxEmployees")
    [] OTHER -> OwnValue(call.data, "minEmployees")

\* C11: whenever a filter call builds a query, the placeholders of the WHERE
\* text are $1..$k in order of appearance, k the number of values, and the
\* n-th value is the value of the filter whose condition contains $n.
C11_PlaceholdersMatchValues ==
  QueryBuilt =>
    LET w == Sent.stmt.where
        k == Len(Sent.params)
        conds == Conditions(Sent.stmt)
    IN  /\ Len(Dollars(w)) = k
        /\ \A n \in 1..k : Dollars(w)[n] = Placeholder(n)
        /\ Len(w) > 0 =>
             \A i \in 1..Len(conds) : \A n \in 1..k :
               (Len(conds[i]) = 3 /\ conds[i][3] = Placeholder(n)) =>
                 Sent.params[n] = ValueOf(conds[i])

C11_Witness ==
  /\ call.op = "Company.getByFilter"
  /\ call.data = <<P("minEmployees", Num(1)), P("name", Str(<<"c">>)),
                   P("maxEmployees", Num(2))>>
  /\ QueryBuilt
  /\ Sent.stmt.where =
       <<"name", "ILIKE", "$1", "AND", "num_employees", "<=", "$2", "AND",
         "num_employees", ">=", "$3">>
  /\ Sent.params = <<Str(<<"%", "c", "%">>), Num(2), Num(1)>>

\* C12: Job.getByFilter never fails with "Invalid equity": a payload with an
\* `equity` key is rejected by the allow-list with "Invalid filters included".
C12_EquityGuardUnreachable ==
  call.op = "Job.getByFilter" =>
    /\ result.msg # "Invalid equity"
    /\ HasOwn(call.data, "equity") =>
         /\ result.err = "BadRequestError"
         /\ result.msg = "Invalid filters included"

C12_Witness ==
  /\ call.op = "Job.getByFilter"
  /\ call.data = <<P("title", Str(<<"j">>)), P("equity", Num(1))>>
  /\ result.err = "BadRequestError"
  /\ result.msg = "Invalid filters included"

\* The job row satisfies every filter the query string supplies
Satisfies(row, query) ==
  /\ HasOwn(query, "title") =>
       ILike(row.title.s, Wrapped(OwnValue(query, "title")).s)
  /\ HasOwn(query, "minSalary") =>
       ~row.salary.null /\ row.salary.n >= Denotes(OwnValue(query, "minSalary"))
  /\ Get(query, "hasEquity") = Str(<<"t", "r", "u", "e">>) =>
       ~row.equity.null /\ row.equity.n > 0

\* C13 (as claimed): GET /jobs runs Job.findAll on an empty query string and
\* Job.getByFilter otherwise, and with the documented filters it responds with
\* exactly the jobs that satisfy all of them (hasEquity=true: equity > 0).
C13_GetJobsFilters ==
  call.op = "GET /jobs" =>
    IF Len(call.data) = 0
      THEN /\ result.err = Ok
           /\ ~Sent.stmt.hasWhere
           /\ result.rows = {Project(r, JobReturning) : r \in jobs}
      ELSE /\ result.err = Ok
           /\ Sent.stmt.hasWhere
           /\ result.rows =
                {Project(r, JobFilterList) :
                   r \in {x \in jobs : Satisfies(x, call.data)}}

(***************************************************************************)
(* Claims about the single-row operations                                  *)
(***************************************************************************)
UpdateOps == {"Job.update", "Company.update"}

\* The column a key of the update payload names
NamedColumn(op, k) ==
  IF op = "Company.update" /\ k = "numEmployees" THEN "num_employees"
  ELSE IF op = "Company.update" /\ k = "logoUrl" THEN "logo_url"
  ELSE k

\* The value of the payload as a column of that type holds it
Stored(col, v) ==
  CASE ColumnType(col) = "text" -> DbText(v.s)
    [] ColumnType(col) = "integer" -> DbInt(v.n)
    [] OTHER -> DbInt(v.n * NumericScale)

\* The row identified by the id / handle of the call c
Identified(c, r) ==
  IF c.op = "Job.update"
    THEN ~ToNumberJS(c.key).nan /\ r.id = DbInt(Denotes(c.key))
    ELSE r.handle = DbText(c.key.s)

\* The row r after the call c: the columns named by the keys of the payload
\* hold the payload's values, the others are those of r
Updated(c, r) ==
  [col \in DOMAIN r |->
     IF \E i \in 1..Len(c.data) : NamedColumn(c.op, c.data[i].k) = col
       THEN Stored(col, c.data[CHOOSE i \in 1..Len(c.data) :
                                 NamedColumn(c.op, c.data[i].k) = col].v)
       ELSE r[col]]

\* C14: a successful Job.update / Company.update changes, in the row with the
\* given id / handle, only the columns named by the keys of data, each to its
\* new value, and leaves that row's other columns and every other row as
\* they were.
C14_UpdateFrame ==
  [][(call = Idle /\ call'.op \in UpdateOps /\ result'.err = Ok) =>
       LET c == call'
           expected(table) ==
             {IF Identified(c, r) THEN Updated(c, r) ELSE r : r \in table}
       IN  IF c.op = "Job.update"
             THEN /\ \E r \in jobs : Identified(c, r)
                  /\ jobs' = expected(jobs)
                  /\ companies' = companies
             ELSE /\ \E r \in companies : Identified(c, r)
                  /\ companies' = expected(companies)
                  /\ jobs' = jobs]_vars

C14_Witness ==
  /\ call.op = "Job.update"
  /\ call.data = <<P("salary", Num(50)), P("equity", Num(1))>>
  /\ result.err = Ok
  /\ JobRow(1, <<"j", "1">>, 50, DbInt(100), <<"c", "1">>) \in jobs
  /\ JobRow(2, <<"j", "2">>, 20, DbInt(0), <<"c", "2">>) \in jobs

SingleRowOps == {"Job.get", "Job.update", "Job.remove"}

\* A row of the table matches the title / id the call c was given
RowMatches(c, table) ==
  \E r \in table :
    IF c.op = "Job.update"
      THEN ~ToNumberJS(c.key).nan /\ r.id = DbInt(Denotes(c.key))
      ELSE r.title = DbText(c.key.s)

\* The arguments are ones the statement of the call can run with: for
\* Job.update an integer id and a non-empty payload whose keys are job columns
Runnable(c) ==
  c.op = "Job.update" =>
    /\ ~ToNumberJS(c.key).nan
    /\ Len(c.data) > 0
    /\ \A i \in 1..Len(c.data) : c.data[i].k \in JobColumns

C17_GetByCompany ==
  call.op = "Job.getByCompany" =>
    LET own == {r \in jobs : r.company_handle = DbText(call.key.s)}
    IN  IF own # {}
          THEN /\ result.err = Ok
               /\ result.rows = {Project(r, JobReturning) : r \in own}
          ELSE result.err = "NotFoundError"

\* C16 (as claimed): starting from distinct titles, after any sequence or
\* interleaving of Job.create calls no two job rows share a title, a call
\* that failed with BadRequestError having inserted nothing.
C16_TitlesStayDistinct ==
  /\ \A r1, r2 \in jobs : r1.title = r2.title => r1 = r2
  /\ \A p \in Requests :
       result[p].err = "BadRequestError" => Len(result[p].queries) = 1

====
